---- MODULE Spec2Model ----
(***************************************************************************)
(* A model of the rustc-npm installer script: run(), downloadAndExtract()  *)
(* and setupIndependentRust(), together with the parts of the environment  *)
(* the script acts on: the filesystem below __dirname, the HTTP server,    *)
(* the node:fs write stream and the tar subprocess.                        *)
(*                                                                         *)
(* Paths are sequences of path components relative to __dirname.           *)
(***************************************************************************)
EXTENDS Integers, Sequences, FiniteSets, TLC

(***************************************************************************)
(* Bounds of the model.                                                    *)
(***************************************************************************)
\* the script is started at most MaxRuns times in a row on the same directory
MaxRuns == 2
\* a response body has at most MaxChunks chunks
MaxChunks == 2
\* at most MaxFaults times the environment misbehaves in a behaviour (an HTTP
\* or network error, an empty body, a failing stream, write, tar or copy)
MaxFaults == 1

(***************************************************************************)
(* Constants of the script.                                                *)
(***************************************************************************)
BINARY_NAME == "rustc"

U_DARWIN_ARM64 == "https://static.rust-lang.org/dist/rust-1.92.0-aarch64-apple-darwin.tar.xz"
U_DARWIN_X64 == "https://static.rust-lang.org/dist/rust-1.92.0-x86_64-apple-darwin.tar.xz"
U_LINUX_X64 == "https://static.rust-lang.org/dist/rust-1.92.0-x86_64-unknown-linux-gnu.tar.xz"
U_STD_I686 == "https://static.rust-lang.org/dist/rust-std-1.92.0-i686-linux-android.tar.gz"
U_STD_X64 == "https://static.rust-lang.org/dist/rust-std-1.92.0-x86_64-linux-android.tar.gz"
U_STD_ARMV7 == "https://static.rust-lang.org/dist/rust-std-1.92.0-armv7-linux-androideabi.tar.xz"
U_STD_AARCH64 == "https://static.rust-lang.org/dist/rust-std-1.92.0-aarch64-linux-android.tar.xz"

\* the falsy value of a table lookup that finds nothing
Undefined == ""

PLATFORMS ==
  [k \in {"darwin-arm64", "darwin-x64", "linux-x64"} |->
     CASE k = "darwin-arm64" -> U_DARWIN_ARM64
       [] k = "darwin-x64" -> U_DARWIN_X64
       [] k = "linux-x64" -> U_LINUX_X64]

ANDROID_STDS == <<U_STD_I686, U_STD_X64, U_STD_ARMV7, U_STD_AARCH64>>

androidTargets ==
  <<"i686-linux-android", "x86_64-linux-android",
    "armv7-linux-androideabi", "aarch64-linux-android">>

(***************************************************************************)
(* The host: process.platform and process.arch.                            *)
(***************************************************************************)
Hosts ==
  { [platform |-> "darwin", arch |-> "arm64"],
    [platform |-> "darwin", arch |-> "x64"],
    [platform |-> "linux", arch |-> "x64"],
    [platform |-> "linux", arch |-> "arm64"],
    [platform |-> "win32", arch |-> "x64"] }

\* `${process.platform}-${process.arch}`
platformKey(h) ==
  CASE h.platform = "darwin" /\ h.arch = "arm64" -> "darwin-arm64"
    [] h.platform = "darwin" /\ h.arch = "x64" -> "darwin-x64"
    [] h.platform = "linux" /\ h.arch = "x64" -> "linux-x64"
    [] h.platform = "linux" /\ h.arch = "arm64" -> "linux-arm64"
    [] h.platform = "win32" /\ h.arch = "x64" -> "win32-x64"

\* a lookup that falls back to the Linux archive for an unknown key
mainUrlFallback(h) ==
  IF platformKey(h) \in DOMAIN PLATFORMS THEN PLATFORMS[platformKey(h)]
  ELSE U_LINUX_X64

\* (PLATFORMS as any)[platformKey]
mainUrl(h) ==
  IF platformKey(h) \in DOMAIN PLATFORMS THEN PLATFORMS[platformKey(h)]
  ELSE Undefined

\* a conditional chain without the branch for darwin-x64
targetTripleNoDarwinX64(h) ==
  IF platformKey(h) = "linux-x64" THEN "x86_64-unknown-linux-gnu"
  ELSE IF platformKey(h) = "darwin-arm64" THEN "aarch64-apple-darwin"
  ELSE ""

\* a conditional chain with the two darwin triples exchanged
targetTripleSwapped(h) ==
  IF platformKey(h) = "linux-x64" THEN "x86_64-unknown-linux-gnu"
  ELSE IF platformKey(h) = "darwin-arm64" THEN "x86_64-apple-darwin"
  ELSE IF platformKey(h) = "darwin-x64" THEN "aarch64-apple-darwin"
  ELSE ""

\* the conditional chain of setupIndependentRust
targetTriple(h) ==
  IF platformKey(h) = "linux-x64" THEN "x86_64-unknown-linux-gnu"
  ELSE IF platformKey(h) = "darwin-arm64" THEN "aarch64-apple-darwin"
  ELSE IF platformKey(h) = "darwin-x64" THEN "x86_64-apple-darwin"
  ELSE ""

\* path.basename(new URL(url).pathname)
Basename(url) ==
  CASE url = U_DARWIN_ARM64 -> "rust-1.92.0-aarch64-apple-darwin.tar.xz"
    [] url = U_DARWIN_X64 -> "rust-1.92.0-x86_64-apple-darwin.tar.xz"
    [] url = U_LINUX_X64 -> "rust-1.92.0-x86_64-unknown-linux-gnu.tar.xz"
    [] url = U_STD_I686 -> "rust-std-1.92.0-i686-linux-android.tar.gz"
    [] url = U_STD_X64 -> "rust-std-1.92.0-x86_64-linux-android.tar.gz"
    [] url = U_STD_ARMV7 -> "rust-std-1.92.0-armv7-linux-androideabi.tar.xz"
    [] url = U_STD_AARCH64 -> "rust-std-1.92.0-aarch64-linux-android.tar.xz"

\* the release version embedded in a URL of the tables
UrlVersion(url) ==
  CASE url = U_DARWIN_ARM64 -> "1.92.0"
    [] url = U_DARWIN_X64 -> "1.92.0"
    [] url = U_LINUX_X64 -> "1.92.0"
    [] url = U_STD_I686 -> "1.92.0"
    [] url = U_STD_X64 -> "1.92.0"
    [] url = U_STD_ARMV7 -> "1.92.0"
    [] url = U_STD_AARCH64 -> "1.92.0"

\* the target triple embedded in a URL of the tables
UrlTriple(url) ==
  CASE url = U_DARWIN_ARM64 -> "aarch64-apple-darwin"
    [] url = U_DARWIN_X64 -> "x86_64-apple-darwin"
    [] url = U_LINUX_X64 -> "x86_64-unknown-linux-gnu"
    [] url = U_STD_I686 -> "i686-linux-android"
    [] url = U_STD_X64 -> "x86_64-linux-android"
    [] url = U_STD_ARMV7 -> "armv7-linux-androideabi"
    [] url = U_STD_AARCH64 -> "aarch64-linux-android"

\* a run() that asks for the Android archives on every supported host
UrlsEverywhere(h) ==
  IF mainUrl(h) = Undefined THEN <<>>
  ELSE <<mainUrl(h)>> \o ANDROID_STDS

\* the archives one run of the script asks for, in order
Urls(h) ==
  IF mainUrl(h) = Undefined THEN <<>>
  ELSE <<mainUrl(h)>> \o (IF h.platform = "linux" THEN ANDROID_STDS ELSE <<>>)

(***************************************************************************)
(* Paths and the filesystem.  A file is [path, mode, data, run]: run is    *)
(* the number of the run that created it (0: before the first run).        *)
(***************************************************************************)
downloadPath == <<"download">>
extractPath == <<"extract">>
finalDist == <<"dist">>
tempArchivePath(url) == downloadPath \o <<Basename(url)>>

IsPrefix(p, q) == Len(p) <= Len(q) /\ SubSeq(q, 1, Len(p)) = p
Suffix(p, q) == SubSeq(q, Len(p) + 1, Len(q))

\* existsSync(p)
existsSync(F, D, p) == p \in D \/ \E f \in F : f.path = p

Exists(fs, p) == existsSync(fs.files, fs.dirs, p)

\* a removal that removes nothing
rmSyncNothing(fs, p) == fs

\* rmSync(p, {recursive: true, force: true}) and rm(p) of a file
rmSync(fs, p) ==
  [files |-> {f \in fs.files : ~IsPrefix(p, f.path)},
   dirs |-> {d \in fs.dirs : ~IsPrefix(p, d)}]

\* mkdirSync(p, {recursive: true})
mkdirSync(fs, p) ==
  [files |-> fs.files,
   dirs |-> fs.dirs \cup {SubSeq(p, 1, k) : k \in 1..Len(p)}]

\* cpSync(src, dest, {recursive: true}) in run r: the copies keep the mode
\* and the data of their sources and replace what was at their paths
cpSync(fs, src, dest, r) ==
  LET copied == {[path |-> dest \o Suffix(src, f.path), mode |-> f.mode,
                  data |-> f.data, run |-> r] :
                    f \in {g \in fs.files : IsPrefix(src, g.path)}}
      made == {dest \o Suffix(src, d) : d \in {e \in fs.dirs : IsPrefix(src, e)}}
  IN [files |-> {f \in fs.files : \A c \in copied : c.path # f.path} \cup copied,
      dirs |-> fs.dirs \cup made]

\* the copyDir helper of setupIndependentRust
copyDir(fs, src, dest, r) ==
  IF ~Exists(fs, src) THEN fs ELSE cpSync(fs, src, dest, r)

\* chmodSync(p, mode)
chmodSync(fs, p, m) ==
  [files |-> {IF f.path = p THEN [f EXCEPT !.mode = m] ELSE f : f \in fs.files},
   dirs |-> fs.dirs]

(***************************************************************************)
(* What the server ships.  The archives are an input of the model: the     *)
(* subtrees named in `missing` are absent from them, and the compiler      *)
(* executable has mode `shipMode` in the primary archive.  Entry paths are *)
(* those left after tar's --strip-components=1.                            *)
(***************************************************************************)
Modes == {"0644", "0755"}

\* the component directory rust-std-<triple>
StdDir(t) ==
  CASE t = "aarch64-apple-darwin" -> "rust-std-aarch64-apple-darwin"
    [] t = "x86_64-apple-darwin" -> "rust-std-x86_64-apple-darwin"
    [] t = "x86_64-unknown-linux-gnu" -> "rust-std-x86_64-unknown-linux-gnu"
    [] t = "i686-linux-android" -> "rust-std-i686-linux-android"
    [] t = "x86_64-linux-android" -> "rust-std-x86_64-linux-android"
    [] t = "armv7-linux-androideabi" -> "rust-std-armv7-linux-androideabi"
    [] t = "aarch64-linux-android" -> "rust-std-aarch64-linux-android"
    [] t = "" -> "rust-std-"

Range(s) == {s[i] : i \in DOMAIN s}
AndroidTriples == Range(androidTargets)
IsAndroidUrl(url) == url \in Range(ANDROID_STDS)

Entry(p, m, url) == [path |-> p, mode |-> m, data |-> <<url>>]

Content(url, miss, smode) ==
  LET t == UrlTriple(url) IN
  {Entry(<<"version">>, "0644", url)}
  \cup
  (IF IsAndroidUrl(url)
   THEN (IF t \in miss THEN {}
         ELSE {Entry(<<StdDir(t), "lib", "rustlib", t, "libstd.rlib">>, "0644", url)})
   ELSE
     (IF "rustc/bin" \in miss THEN {}
      ELSE {Entry(<<"rustc", "bin", BINARY_NAME>>, smode, url)})
     \cup
     (IF "rustc/lib" \in miss THEN {}
      ELSE {Entry(<<"rustc", "lib", "librustc_driver.so">>, "0644", url)})
     \cup
     (IF "rustc/lib" \in miss \/ "rustlib/etc" \in miss THEN {}
      ELSE {Entry(<<"rustc", "lib", "rustlib", "etc", "lldb_commands">>, "0644", url)})
     \cup
     (IF "cargo/bin" \in miss THEN {}
      ELSE {Entry(<<"cargo", "bin", "cargo">>, "0755", url)})
     \cup
     (IF "rust-std" \in miss THEN {}
      ELSE {Entry(<<StdDir(t), "lib", "rustlib", t, "libstd.rlib">>, "0644", url)}))

\* the directories above a path
Ancestors(p) == {SubSeq(p, 1, k) : k \in 1..(Len(p) - 1)}

\* a tar that keeps the files it finds at the paths of its entries
UntarKeepOld(fs, entries, dest, r) ==
  LET put == {[path |-> dest \o e.path, mode |-> e.mode, data |-> e.data,
               run |-> r] : e \in entries}
  IN [files |-> fs.files \cup {c \in put : \A f \in fs.files : f.path # c.path},
      dirs |-> fs.dirs \cup UNION {Ancestors(c.path) : c \in put}]

\* tar -xf <archive> --strip-components=1 -C dest, when it succeeds
Untar(fs, entries, dest, r) ==
  LET put == {[path |-> dest \o e.path, mode |-> e.mode, data |-> e.data,
               run |-> r] : e \in entries}
  IN [files |-> {f \in fs.files : \A c \in put : c.path # f.path} \cup put,
      dirs |-> fs.dirs \cup UNION {Ancestors(c.path) : c \in put}]

(***************************************************************************)
(* State.                                                                  *)
(***************************************************************************)
VARIABLES
  host,       \* process.platform and process.arch
  missing,    \* the subtrees the archives on the server do not ship
  shipMode,   \* the mode of bin/rustc in the primary archive
  fs,         \* the filesystem below __dirname: [files, dirs]
  runNo,      \* the number of the current run of the script
  pc,         \* where the process is suspended
  idx,        \* the index in Urls(host) of the archive being processed
  got,        \* chunks read from the current response
  w,          \* the write stream of the current archive
  exitCode,   \* -1 while the process runs, then its exit status
  err,        \* the error that ended the run, "none" if none
  fs0,        \* the filesystem when the current run started
  fetchBegun, \* the indices whose fetch was issued in this run
  extracted,  \* the indices whose downloadAndExtract resolved in this run
  tarObs,     \* what each tar subprocess of this run found and returned
  assembled,  \* how often setupIndependentRust was called in this run
  goodDist,   \* the final dist of the latest earlier successful run that
              \* received a body for every archive
  faults      \* how often the environment has misbehaved so far

inputs == <<host, missing, shipMode>>
history == <<fs0, fetchBegun, extracted, tarObs, assembled, goodDist>>
CanFail == faults < MaxFaults
Fault(b) == faults' = (IF b THEN faults + 1 ELSE faults)
vars == <<host, missing, shipMode, fs, runNo, pc, idx, got, w, exitCode, err,
          fs0, fetchBegun, extracted, tarObs, assembled, goodDist, faults>>

PrimarySubtrees == {"rustc/bin", "rustc/lib", "rustlib/etc", "cargo/bin", "rust-std"}

\* the archives the model explores: what they do not ship, and the mode of
\* the compiler executable
ArchiveChoices ==
  { <<{}, "0755">>,
    <<{"rustlib/etc"}, "0644">>,
    <<{"rustlib/etc", "rust-std", "x86_64-linux-android"}, "0644">>,
    <<PrimarySubtrees \cup AndroidTriples, "0644">> }

NoWriter == [st |-> "none", pending |-> <<>>, ended |-> FALSE,
             listening |-> FALSE, finished |-> FALSE, linked |-> FALSE]

NoFs == [files |-> {}, dirs |-> {}]

\* what an interrupted installation by an older release of the package left
\* behind: an installed tool, its staging copy and a partial archive
LegacyFs(h) ==
  [files |-> {[path |-> <<"dist", "bin", "legacy-tool">>, mode |-> "0755",
               data |-> <<"legacy">>, run |-> 0],
              [path |-> <<"extract", "cargo", "bin", "legacy-tool">>, mode |-> "0755",
               data |-> <<"legacy">>, run |-> 0]}
             \cup (IF mainUrl(h) = Undefined THEN {}
                   ELSE {[path |-> tempArchivePath(mainUrl(h)), mode |-> "0644",
                          data |-> <<"legacy">>, run |-> 0]}),
   dirs |-> {<<"dist">>, <<"dist", "bin">>, <<"extract">>, <<"extract", "cargo">>,
             <<"extract", "cargo", "bin">>, <<"download">>}]

Init ==
  /\ host \in Hosts
  /\ \/ /\ \E c \in ArchiveChoices : missing = c[1] /\ shipMode = c[2]
        /\ fs = NoFs
     \/ /\ missing = {"rustlib/etc"}
        /\ shipMode = "0644"
        /\ fs = LegacyFs(host)
  /\ runNo = 1
  /\ pc = "start"
  /\ idx = 0
  /\ got = 0
  /\ w = NoWriter
  /\ exitCode = -1
  /\ err = "none"
  /\ fs0 = fs
  /\ fetchBegun = {}
  /\ extracted = {}
  /\ tarObs = {}
  /\ assembled = 0
  /\ goodDist = [has |-> FALSE, dist |-> {}]
  /\ faults = 0

\* the part of a filesystem below p, without the run marks
Snapshot(f, p) ==
  {[path |-> g.path, mode |-> g.mode, data |-> g.data] :
     g \in {x \in f.files : IsPrefix(p, x.path)}}

Alive == exitCode = -1
url == Urls(host)[idx]

\* process.exit(code), or the death of the process from an uncaught error
Exit(code, e) ==
  /\ pc' = "exited"
  /\ exitCode' = code
  /\ err' = e

(***************************************************************************)
(* setupIndependentRust(unpackedPath), with unpackedPath = extractPath.     *)
(***************************************************************************)
distPath == extractPath \o <<"dist">>
binPath == distPath \o <<"bin">>
libPath == distPath \o <<"lib">>

\* step 1: the staging directory is recreated from empty
CreateLayout(f) ==
  LET a == IF Exists(f, distPath) THEN rmSync(f, distPath) ELSE f
  IN mkdirSync(mkdirSync(a, binPath), libPath)

\* an assembler without the loop over androidTargets
CopyAndroidNone(f, i, r) == f

\* the loop over androidTargets, from target i on
RECURSIVE CopyAndroid(_, _, _)
CopyAndroid(f, i, r) ==
  IF i > Len(androidTargets) THEN f
  ELSE LET target == androidTargets[i]
           androidStdSrc == extractPath \o <<StdDir(target), "lib", "rustlib", target>>
           androidStdDest == libPath \o <<"rustlib", target>>
       IN CopyAndroid(copyDir(f, androidStdSrc, androidStdDest, r), i + 1, r)

\* step 2: the copies into the staging directory
Staged(f, h, r) ==
  LET a == CreateLayout(f)
      b == copyDir(a, extractPath \o <<"rustc", "bin">>, binPath, r)
      c == copyDir(b, extractPath \o <<"rustc", "lib">>, libPath, r)
      d == copyDir(c, extractPath \o <<"cargo", "bin">>, binPath, r)
      stdLibSrc == extractPath \o <<StdDir(targetTriple(h)), "lib", "rustlib">>
      stdLibDest == libPath \o <<"rustlib">>
      e == copyDir(d, stdLibSrc, stdLibDest, r)
  IN IF h.platform = "linux" THEN CopyAndroid(e, 1, r) ELSE e

\* mkdirSync(p) without recursive: throws when p exists
MkdirPlain(f, p) ==
  IF Exists(f, p) THEN [fs |-> f, ok |-> FALSE]
  ELSE [fs |-> [files |-> f.files, dirs |-> f.dirs \cup {p}], ok |-> TRUE]

\* a replace that merges the staging directory into the final dist it finds
ReplaceFinalMerge(f, r) ==
  [fs |-> copyDir(mkdirSync(f, finalDist), distPath, finalDist, r), ok |-> TRUE]

\* step 3: the final dist is removed, made again and filled from the staging
\* directory
ReplaceFinal(f, r) ==
  LET a == IF Exists(f, finalDist) THEN rmSync(f, finalDist) ELSE f
      m == MkdirPlain(a, finalDist)
  IN IF m.ok THEN [fs |-> copyDir(m.fs, distPath, finalDist, r), ok |-> TRUE]
     ELSE m

setupIndependentRust(f, h, r) == ReplaceFinal(Staged(f, h, r), r)

\* a check that does not set the mode
VerifyNoChmod(f) == f

\* the check of run() after the assembly
Verify(f) ==
  LET binFile == finalDist \o <<"bin", BINARY_NAME>>
  IN IF Exists(f, binFile) THEN chmodSync(f, binFile, "0755") ELSE f

\* where a filesystem call of the assembler can throw
AsmFaults == {"none", "stage", "rm", "copy"}
Children == {"none", "bin", "lib"}

\* a run() that fails when the compiler executable is not in the final dist
AssembleAndVerifyStrict(f) ==
  /\ assembled' = assembled + 1
  /\ Fault(FALSE)
  /\ LET res == setupIndependentRust(f, host, runNo) IN
     IF res.ok /\ Exists(res.fs, finalDist \o <<"bin", BINARY_NAME>>)
     THEN fs' = Verify(res.fs) /\ Exit(0, "none")
     ELSE fs' = res.fs /\ Exit(1, "assemble")

\* step 3 of run(): the assembly and the check, or the catch of run()
AssembleAndVerify(f) ==
  /\ assembled' = assembled + 1
  /\ \E fault \in AsmFaults, c \in Children :
       /\ fault # "none" => CanFail
       /\ Fault(fault # "none")
       /\
          LET st == Staged(f, host, runNo) IN
          CASE fault = "none" ->
              LET res == ReplaceFinal(st, runNo) IN
              IF res.ok THEN fs' = Verify(res.fs) /\ Exit(0, "none")
              ELSE fs' = res.fs /\ Exit(1, "assemble")
         [] fault = "stage" ->
              /\ c = "none"
              /\ fs' = CreateLayout(f)
              /\ Exit(1, "assemble")
         [] fault = "rm" ->
              /\ Exists(st, finalDist)
              /\ fs' = rmSync(st, finalDist \o <<c>>)
              /\ Exit(1, "assemble")
         [] fault = "copy" ->
              /\ fs' = copyDir(mkdirSync(rmSync(st, finalDist), finalDist),
                               distPath \o <<c>>, finalDist \o <<c>>, runNo)
              /\ Exit(1, "assemble")

(***************************************************************************)
(* downloadAndExtract(url, extractPath) up to its first await.             *)
(***************************************************************************)
BeginDownload(f, i) ==
  /\ fs' = (IF ~Exists(f, downloadPath) THEN mkdirSync(f, downloadPath) ELSE f)
  /\ pc' = "fetch"
  /\ idx' = i
  /\ got' = 0
  /\ w' = NoWriter
  /\ fetchBegun' = fetchBegun \cup {i}
  /\ UNCHANGED <<exitCode, err>>

\* a run() that removes the final dist together with the extract directory
ClearStagingAndDist(f) ==
  LET a == IF Exists(f, extractPath) THEN rmSync(f, extractPath) ELSE f
  IN IF Exists(a, finalDist) THEN rmSync(a, finalDist) ELSE a

\* a run() that keeps the extract directory an earlier run left
ClearStagingKeep(f) == f

\* run() removes the extract directory an earlier run left
ClearStaging(f) == IF Exists(f, extractPath) THEN rmSync(f, extractPath) ELSE f

\* run() from its start to the first fetch
Start ==
  /\ pc = "start"
  /\ IF mainUrl(host) = Undefined
     THEN /\ Exit(1, "unsupported")
          /\ UNCHANGED <<fs, idx, got, w, fetchBegun>>
     ELSE BeginDownload(mkdirSync(ClearStaging(fs), extractPath), 1)
  /\ UNCHANGED <<inputs, runNo, fs0, extracted, tarObs, assembled, goodDist, faults>>

\* a catch block that leaves the archive file where it is
CatchNowKeep(e) ==
  /\ fs' = fs
  /\ Exit(1, e)

\* the catch block of downloadAndExtract when nothing else is in flight,
\* followed by the catch block of run()
CatchNow(e) ==
  /\ fs' = (IF Exists(fs, tempArchivePath(url)) THEN rmSync(fs, tempArchivePath(url))
            ELSE fs)
  /\ Exit(1, e)

\* the answer to fetch(url)
FetchResponse ==
  /\ pc = "fetch"
  /\ \E answer \in {"ok", "http", "network"} :
       /\ answer # "ok" => CanFail
       /\ Fault(answer # "ok")
       /\ IF answer = "ok"
          THEN /\ w' = [NoWriter EXCEPT !.st = "opening"]
               /\ pc' = "read"
               /\ UNCHANGED <<fs, exitCode, err>>
          ELSE /\ CatchNow(answer)
               /\ UNCHANGED w
  /\ UNCHANGED <<inputs, runNo, idx, got, history>>

(***************************************************************************)
(* The read loop of downloadAndExtract.                                    *)
(***************************************************************************)
\* reader.read() yields a chunk: writer.write(value)
ReadChunk ==
  /\ pc = "read"
  /\ got < MaxChunks
  /\ got' = got + 1
  /\ w' = [w EXCEPT !.pending = Append(@, ToString(got + 1))]
  /\ UNCHANGED <<inputs, fs, runNo, pc, idx, exitCode, err, history, faults>>

\* reader.read() yields done: writer.end(), and the promise with its finish
\* and error listeners is returned
ReadDone ==
  /\ pc = "read"
  /\ got = 0 => CanFail
  /\ Fault(got = 0)
  /\ pc' = "ended"
  /\ w' = [w EXCEPT !.ended = TRUE, !.listening = TRUE]
  /\ UNCHANGED <<inputs, fs, runNo, idx, got, exitCode, err, history>>

\* reader.read() rejects: the catch block tests existsSync(tempArchivePath)
ReadError ==
  /\ pc = "read"
  /\ CanFail
  /\ Fault(TRUE)
  /\ pc' = (IF Exists(fs, tempArchivePath(url)) THEN "catch" ELSE "rethrow")
  /\ UNCHANGED <<inputs, fs, runNo, idx, got, w, exitCode, err, history>>

\* the rm(tempArchivePath) of the catch block completes
CatchRm ==
  /\ pc = "catch"
  /\ fs' = rmSync(fs, tempArchivePath(url))
  /\ w' = [w EXCEPT !.linked = FALSE]
  /\ pc' = "rethrow"
  /\ UNCHANGED <<inputs, runNo, idx, got, exitCode, err, history, faults>>

\* the error is thrown again and reaches the catch block of run()
Rethrow ==
  /\ pc = "rethrow"
  /\ Exit(1, "stream")
  /\ UNCHANGED <<inputs, fs, runNo, idx, got, w, history, faults>>

(***************************************************************************)
(* The write stream made by createWriteStream(tempArchivePath).            *)
(***************************************************************************)
\* open(path, "w"): the file is created, or truncated when it exists
OpenFile(f, p, r) ==
  [files |-> {g \in f.files : g.path # p}
             \cup {[path |-> p, mode |-> "0644", data |-> <<>>, run |-> r]},
   dirs |-> f.dirs]

\* one chunk reaches the file the descriptor refers to
WriteFile(f, p, chunk) ==
  [files |-> {IF g.path = p THEN [g EXCEPT !.data = Append(@, chunk)] ELSE g :
                g \in f.files},
   dirs |-> f.dirs]

\* the file at p holds the n chunks of the body, in order
HasBody(f, p, n) ==
  \E g \in f.files : g.path = p /\ g.data = [j \in 1..n |-> ToString(j)]

\* the stream emits 'finish' once end() was called and every write is done
FinishReady(wr) == wr.ended /\ wr.st = "open" /\ wr.pending = <<>> /\ ~wr.finished

WriterOpen ==
  /\ Alive
  /\ w.st = "opening"
  /\ fs' = OpenFile(fs, tempArchivePath(url), runNo)
  /\ w' = [w EXCEPT !.st = "open", !.linked = TRUE]
  /\ UNCHANGED <<inputs, runNo, pc, idx, got, exitCode, err, history, faults>>

WriterFlush ==
  /\ Alive
  /\ w.st = "open"
  /\ w.pending # <<>>
  /\ fs' = (IF w.linked THEN WriteFile(fs, tempArchivePath(url), Head(w.pending))
            ELSE fs)
  /\ w' = [w EXCEPT !.pending = Tail(@)]
  /\ UNCHANGED <<inputs, runNo, pc, idx, got, exitCode, err, history, faults>>

\* the open or a write fails: the stream emits 'error'.  With the listener
\* of the returned promise the promise is rejected and run() catches it;
\* without a listener the error is uncaught and ends the process.
WriterError ==
  /\ Alive
  /\ CanFail
  /\ Fault(TRUE)
  /\ \/ w.st = "opening"
     \/ w.st = "open" /\ w.pending # <<>>
  /\ w' = [w EXCEPT !.st = "closed"]
  /\ Exit(1, IF w.listening THEN "write" ELSE "uncaught")
  /\ UNCHANGED <<inputs, fs, runNo, idx, got, history>>

\* the descriptor is closed after 'finish'
WriterClose ==
  /\ Alive
  /\ w.finished
  /\ w.st = "open"
  /\ w' = [w EXCEPT !.st = "closed"]
  /\ UNCHANGED <<inputs, fs, runNo, pc, idx, got, exitCode, err, history, faults>>

TarStatus == {0, 2}

\* the 'finish' listener: spawnSync("tar", ...) and its outcome
WriterFinish ==
  /\ pc = "ended"
  /\ FinishReady(w)
  /\ w' = [w EXCEPT !.finished = TRUE]
  /\ \E status \in TarStatus :
       /\ status # 0 => CanFail
       /\ Fault(status # 0)
       /\ tarObs' = tarObs \cup {[i |-> idx, fd |-> w.st, pending |-> Len(w.pending),
                                  whole |-> HasBody(fs, tempArchivePath(url), got),
                                  empty |-> (got = 0), dest |-> extractPath]}
       /\ IF status = 0
          THEN /\ fs' = Untar(fs, IF got = 0 THEN {} ELSE Content(url, missing, shipMode),
                              extractPath, runNo)
               /\ pc' = "rm"
               /\ UNCHANGED <<exitCode, err>>
          ELSE /\ Exit(1, "tar")
               /\ UNCHANGED fs
  /\ UNCHANGED <<inputs, runNo, idx, got, fs0, fetchBegun, extracted, assembled,
                 goodDist>>

\* a run() that goes on to the assembly after its first archive
MoreArchivesNone(i, h) == FALSE

\* the loop of run() over the archives
MoreArchives(i, h) == i < Len(Urls(h))

\* rm(tempArchivePath) completes and the promise resolves: run() goes on
\* with the next archive, or with the assembly
RmDone ==
  /\ pc = "rm"
  /\ extracted' = extracted \cup {idx}
  /\ LET f == rmSync(fs, tempArchivePath(url)) IN
     IF MoreArchives(idx, host)
     THEN BeginDownload(f, idx + 1) /\ UNCHANGED <<assembled, faults>>
     ELSE AssembleAndVerify(f) /\ UNCHANGED <<idx, got, w, fetchBegun>>
  /\ UNCHANGED <<inputs, runNo, fs0, tarObs, goodDist>>

\* the script is started again on the same directory
NextRun ==
  /\ pc = "exited"
  /\ runNo < MaxRuns
  /\ runNo' = runNo + 1
  /\ pc' = "start"
  /\ idx' = 0
  /\ got' = 0
  /\ w' = NoWriter
  /\ exitCode' = -1
  /\ err' = "none"
  /\ fs0' = fs
  /\ fetchBegun' = {}
  /\ extracted' = {}
  /\ tarObs' = {}
  /\ assembled' = 0
  /\ goodDist' = (IF exitCode = 0 /\ \A o \in tarObs : ~o.empty
                  THEN [has |-> TRUE, dist |-> Snapshot(fs, finalDist)]
                  ELSE goodDist)
  /\ UNCHANGED <<inputs, fs, faults>>

Next ==
  \/ Start
  \/ FetchResponse
  \/ ReadChunk
  \/ ReadDone
  \/ ReadError
  \/ CatchRm
  \/ Rethrow
  \/ WriterOpen
  \/ WriterFlush
  \/ WriterError
  \/ WriterClose
  \/ WriterFinish
  \/ RmDone
  \/ NextRun

Spec == Init /\ [][Next]_vars

(***************************************************************************)
(* One run of the script in an environment that does not misbehave, on     *)
(* archives that lack any of the subtrees the assembler copies from.       *)
(***************************************************************************)
\* the source subtrees of the assembler an archive of host h can lack
SourceSubtrees(h) ==
  {"rustc/bin", "rustc/lib", "cargo/bin", "rust-std"}
  \cup (IF h.platform = "linux" THEN AndroidTriples ELSE {})

InitAnyMissing ==
  /\ host \in {h \in Hosts : mainUrl(h) # Undefined}
  /\ \E m \in SUBSET SourceSubtrees(host) : missing = m \cup {"rustlib/etc"}
  /\ shipMode = "0644"
  /\ fs = NoFs
  /\ runNo = 1
  /\ pc = "start"
  /\ idx = 0
  /\ got = 0
  /\ w = NoWriter
  /\ exitCode = -1
  /\ err = "none"
  /\ fs0 = fs
  /\ fetchBegun = {}
  /\ extracted = {}
  /\ tarObs = {}
  /\ assembled = 0
  /\ goodDist = [has |-> FALSE, dist |-> {}]
  /\ faults = MaxFaults

NextNoFault ==
  \/ Start
  \/ FetchResponse
  \/ ReadChunk
  \/ ReadDone
  \/ WriterOpen
  \/ WriterFlush
  \/ WriterClose
  \/ WriterFinish
  \/ RmDone

SpecAnyMissing == InitAnyMissing /\ [][NextNoFault]_vars

TypeOK ==
  /\ host \in Hosts
  /\ runNo \in 1..MaxRuns
  /\ pc \in {"start", "fetch", "read", "catch", "rethrow", "ended", "rm", "exited"}
  /\ exitCode \in {-1, 0, 1}
  /\ got \in 0..MaxChunks

(***************************************************************************)
(* Properties.                                                             *)
(***************************************************************************)
SupportedKeys == {"darwin-arm64", "darwin-x64", "linux-x64"}
Done == pc = "exited"
Succeeded == pc = "exited" /\ exitCode = 0
UnderDist(f) == {g \in f.files : IsPrefix(finalDist, g.path)}
\* every body of this run had at least one chunk
AllBodies == \A o \in tarObs : ~o.empty
\* the archive file of the current step, written in this run
PartialArchive ==
  \E g \in fs.files : g.path = tempArchivePath(url) /\ g.run = runNo

\* C1: on a platform key outside darwin-arm64, darwin-x64 and linux-x64 the
\* run ends with a non-zero exit status, the filesystem is what it was when
\* the run started and no download was issued.
C1_UnsupportedNoSideEffects ==
  platformKey(host) \notin SupportedKeys =>
    /\ fs = fs0
    /\ fetchBegun = {}
    /\ pc \in {"start", "exited"}
    /\ Done => exitCode = 1 /\ err = "unsupported"

\* C1 happens: an unsupported host has exited and the files that were there
\* are still there
W_C1 ==
  /\ platformKey(host) \notin SupportedKeys
  /\ Done
  /\ fs # NoFs

\* C2: when a fetch was answered with a non-success status, the run has
\* failed with the HTTP error and no file is at the archive's destination
\* path, whatever was there before.
C2_HttpErrorLeavesNoFile ==
  (Done /\ err = "http") =>
    /\ exitCode = 1
    /\ ~Exists(fs, tempArchivePath(url))

\* C2 happens: the HTTP error came while an archive of an earlier run was at
\* the destination path
W_C2 ==
  /\ Done
  /\ err = "http"
  /\ Exists(fs0, tempArchivePath(url))

\* C3 (as claimed): after a success answer with a zero-length body no tar is
\* started for that archive, and the step ends with an empty-download error
\* and without a file at the destination path.
C3_EmptyDownloadRejected ==
  (idx >= 1 /\ w.ended /\ got = 0) =>
    /\ \A o \in tarObs : o.i # idx
    /\ Done => (err = "empty" /\ ~Exists(fs, tempArchivePath(url)))

\* C4 (as claimed): when the write stream has failed, the partial archive
\* file of the step is gone once the run has ended.
C4_WriteErrorRemovesPartial ==
  (Done /\ err \in {"write", "uncaught"}) => ~PartialArchive

\* C5: the fetch of an archive begins only after every earlier archive was
\* written in full, extracted and removed; the assembler runs at most once,
\* only after every archive of the run was extracted, and it has run when
\* the run ends with status 0.
C5_Sequential ==
  /\ \A i \in fetchBegun : \A k \in 1..(i - 1) : k \in extracted
  /\ \A k \in extracted : \E o \in tarObs : o.i = k /\ o.pending = 0 /\ o.whole
  /\ fetchBegun \subseteq 1..Len(Urls(host))
  /\ assembled <= 1
  /\ assembled = 1 => extracted = 1..Len(Urls(host))
  /\ Succeeded => assembled = 1

\* C5 happens: a Linux run has fetched and extracted its five archives and
\* assembled them
W_C5 ==
  /\ Succeeded
  /\ Len(Urls(host)) = 5
  /\ extracted = 1..5
  /\ assembled = 1

\* C6 (as claimed): every tar found the archive file with all its chunks
\* written, no write pending and the descriptor closed.
C6_ExtractAfterClose ==
  \A o \in tarObs : o.pending = 0 /\ o.whole /\ o.fd = "closed"

\* C7: after a run that ends with status 0, dist/bin/rustc has mode 0755
\* when it exists.
C7_ExecutableMode ==
  Succeeded =>
    \A g \in fs.files :
      g.path = finalDist \o <<"bin", BINARY_NAME>> => g.mode = "0755"

\* C7 happens: the archive shipped the executable with mode 0644 and the run
\* has installed it
W_C7 ==
  /\ Succeeded
  /\ shipMode = "0644"
  /\ \E g \in fs.files : g.path = finalDist \o <<"bin", BINARY_NAME>>

\* where the entry e of an archive belongs in the final dist (<<>>: nowhere)
Place(e) ==
  LET p == e.path
      t == targetTriple(host)
      Under(q) == IsPrefix(q, p)
  IN IF Under(<<"rustc", "bin">>) THEN <<"dist", "bin">> \o Suffix(<<"rustc", "bin">>, p)
     ELSE IF Under(<<"cargo", "bin">>) THEN <<"dist", "bin">> \o Suffix(<<"cargo", "bin">>, p)
     ELSE IF Under(<<"rustc", "lib">>) THEN <<"dist", "lib">> \o Suffix(<<"rustc", "lib">>, p)
     ELSE IF Under(<<StdDir(t), "lib", "rustlib">>)
       THEN <<"dist", "lib", "rustlib">> \o Suffix(<<StdDir(t), "lib", "rustlib">>, p)
     ELSE IF host.platform = "linux"
             /\ \E a \in AndroidTriples : Under(<<StdDir(a), "lib", "rustlib", a>>)
       THEN <<"dist", "lib">> \o Suffix(<<p[1], "lib">>, p)
     ELSE <<>>

\* the entries of all archives of the host
Shipped == UNION {Content(Urls(host)[i], missing, shipMode) : i \in 1..Len(Urls(host))}

\* the final dist the archives determine
ExpectedDist ==
  {[path |-> Place(e),
    mode |-> (IF Place(e) = <<"dist", "bin", BINARY_NAME>> THEN "0755" ELSE e.mode),
    data |-> e.data] : e \in {x \in Shipped : Place(x) # <<>>}}

\* C8: a run that received every archive and ends with status 0 leaves the
\* final dist the archives determine, whatever the directory held before,
\* and that is the final dist of the earlier successful run, if there was one.
C8_Idempotent ==
  (Succeeded /\ AllBodies) =>
    /\ Snapshot(fs, finalDist) = ExpectedDist
    /\ goodDist.has => Snapshot(fs, finalDist) = goodDist.dist

\* C8 happens: the second run in succession has succeeded on a directory
\* that held the output of the first
W_C8 ==
  /\ Succeeded
  /\ AllBodies
  /\ runNo = 2
  /\ goodDist.has
  /\ goodDist.dist # {}

\* the entries under lib/rustlib of the final dist
RustlibEntries ==
  {g.path[4] : g \in {x \in fs.files : IsPrefix(<<"dist", "lib", "rustlib">>, x.path)}}
  \cup {d[4] : d \in {x \in fs.dirs : IsPrefix(<<"dist", "lib", "rustlib">>, x)
                                      /\ Len(x) >= 4}}

\* the triples the run is meant to install
WantedTriples ==
  {targetTriple(host)} \cup (IF host.platform = "linux" THEN AndroidTriples ELSE {})

\* C9 (as claimed): after a successful assembly the entries under
\* lib/rustlib are exactly the host triple and the supplementary triples.
C9_ExactlyTheTriples ==
  (Succeeded /\ AllBodies) => RustlibEntries = WantedTriples

\* the entries the archives ship for lib/rustlib
ShippedRustlib ==
  {e.path[4] : e \in {x \in Shipped :
      \/ IsPrefix(<<"rustc", "lib", "rustlib">>, x.path)
      \/ IsPrefix(<<StdDir(targetTriple(host)), "lib", "rustlib">>, x.path)
      \/ /\ host.platform = "linux"
         /\ \E a \in AndroidTriples : IsPrefix(<<StdDir(a), "lib", "rustlib", a>>, x.path)}}

\* C9 (amended): after a successful assembly the entries under lib/rustlib
\* are the entries the primary archive ships under rustc/lib/rustlib and
\* rust-std-<host>/lib/rustlib and each supplementary triple whose archive
\* ships it; they are the host triple and the supplementary triples when
\* every archive ships its own triple and nothing else there.
C9_ShippedEntries ==
  (Succeeded /\ AllBodies) =>
    /\ RustlibEntries = ShippedRustlib
    /\ missing = {"rustlib/etc"} => RustlibEntries = WantedTriples

\* C9 happens: a Linux run has installed the host triple and the four
\* Android triples
W_C9 ==
  /\ Succeeded
  /\ AllBodies
  /\ host.platform = "linux"
  /\ missing = {"rustlib/etc"}
  /\ Cardinality(RustlibEntries) = 5

\* C10: the files of the final dist are at all times the files of one run.
C10_NoMixedRuns ==
  \A g1, g2 \in UnderDist(fs) : g1.run = g2.run

\* C10 happens: the assembler has failed part-way while replacing the dist
\* of an earlier run and files of the current run are in the final dist
W_C10 ==
  /\ Done
  /\ err = "assemble"
  /\ UnderDist(fs0) # {}
  /\ \E g \in UnderDist(fs) : g.run = runNo

\* the supplementary archives whose fetch was issued in this run, by triple
FetchedSupplementary ==
  {UrlTriple(Urls(host)[i]) : i \in fetchBegun \ {1}}

\* the supplementary triples present in the final dist
AssembledSupplementary == RustlibEntries \cap AndroidTriples

\* C11: on a host whose operating system is not Linux no supplementary
\* archive is fetched and no supplementary triple is in the final dist; a
\* successful run on a supported Linux host has fetched the archive of
\* every Android triple, and the triples it has assembled are the triples
\* of the fetched archives that ship their subtree: the same set when every
\* archive was received and ships its triple.
C11_SupplementaryOnLinux ==
  /\ host.platform # "linux" =>
       /\ FetchedSupplementary = {}
       /\ AssembledSupplementary = {}
  /\ (Succeeded /\ host.platform = "linux") =>
       /\ FetchedSupplementary = AndroidTriples
       /\ AllBodies => AssembledSupplementary = FetchedSupplementary \ missing

\* C11 happens: a Linux run has fetched the four Android archives and the
\* four triples are in the final dist
W_C11 ==
  /\ Succeeded
  /\ AllBodies
  /\ host.platform = "linux"
  /\ missing \cap AndroidTriples = {}
  /\ Cardinality(FetchedSupplementary) = 4
  /\ AssembledSupplementary = FetchedSupplementary

\* the host standard library is in the final dist
HostStdInstalled(t) ==
  \E g \in fs.files : g.path = finalDist \o <<"lib", "rustlib", t, "libstd.rlib">>

\* C12: for a supported platform key the primary URL embeds the version
\* 1.92.0, the version of every supplementary URL, and the target triple the
\* assembler derives from the key; so a successful run whose primary
\* archive ships rust-std-<triple> has installed the standard library of
\* that triple.
C12_UrlMatchesTriple ==
  platformKey(host) \in SupportedKeys =>
    /\ UrlVersion(mainUrl(host)) = "1.92.0"
    /\ \A i \in 1..Len(Urls(host)) : UrlVersion(Urls(host)[i]) = UrlVersion(mainUrl(host))
    /\ targetTriple(host) # ""
    /\ UrlTriple(mainUrl(host)) = targetTriple(host)
    /\ (Succeeded /\ AllBodies /\ "rust-std" \notin missing) =>
         HostStdInstalled(UrlTriple(mainUrl(host)))

\* C12 happens: a darwin run has installed the standard library its
\* primary archive ships
W_C12 ==
  /\ Succeeded
  /\ AllBodies
  /\ host.platform = "darwin"
  /\ "rust-std" \notin missing
  /\ HostStdInstalled(UrlTriple(mainUrl(host)))

\* C13: the assembler has run only for a host whose derived triple is not
\* empty; on a platform key for which the derivation yields the empty
\* string no fetch is issued, no tar is started and the assembler is not
\* called, and the run ends as an unsupported platform with status 1.
C13_NoEmptyTriple ==
  /\ assembled >= 1 => targetTriple(host) # ""
  /\ targetTriple(host) = "" =>
       /\ fetchBegun = {}
       /\ tarObs = {}
       /\ extracted = {}
       /\ assembled = 0
       /\ pc \in {"start", "exited"}
       /\ Done => (exitCode = 1 /\ err = "unsupported")

\* C13 happens: a host without a derived triple was rejected in two runs
\* in succession
W_C13 ==
  /\ targetTriple(host) = ""
  /\ err = "unsupported"
  /\ exitCode = 1
  /\ runNo = 2

\* an error was raised in the current run
Failing ==
  \/ pc \in {"catch", "rethrow"}
  \/ Done /\ err # "none"

\* C14 (as claimed): an HTTP or network error, an empty body, a failing
\* response stream, write, tar or assembly puts the run on its way to the
\* exit with status 1; from then on no fetch is issued, no tar is started,
\* no archive counts as extracted, the assembler is not called and the
\* staging directory and the final dist do not change; a run ends with
\* status 0 only when none of these happened in it, every archive was
\* extracted and the assembler has run.
C14_ErrorFailsRun ==
  [][ /\ faults' > faults =>
           \/ pc' \in {"catch", "rethrow"}
           \/ pc' = "exited" /\ exitCode' = 1 /\ err' # "none"
      /\ (Failing /\ runNo' = runNo) =>
           /\ Failing'
           /\ UNCHANGED <<fetchBegun, extracted, tarObs, assembled>>
           /\ Snapshot(fs', extractPath) = Snapshot(fs, extractPath)
           /\ Snapshot(fs', finalDist) = Snapshot(fs, finalDist)
      /\ pc' = "exited" =>
           /\ exitCode' \in {0, 1}
           /\ exitCode' = 0 <=> err' = "none"
      /\ (pc # "exited" /\ pc' = "exited" /\ exitCode' = 0) =>
           /\ ~Failing
           /\ faults' = faults
           /\ extracted' = 1..Len(Urls(host))
           /\ assembled' = 1 ]_vars

\* C15 (as claimed): when the response stream has failed after the write
\* stream was created, no archive file of the step is at the destination
\* path once the process has ended, however the open and the pending writes
\* of the write stream fell between the steps of the cleanup.
C15_StreamErrorLeavesNoFile ==
  (Done /\ err = "stream") => ~Exists(fs, tempArchivePath(url))

\* C16 (as claimed): two different archives of a run are extracted into
\* different destination directories.
C16_OwnStagingDir ==
  \A o1, o2 \in tarObs : o1.i # o2.i => o1.dest # o2.dest

\* the paths the extraction of archive i writes
WrittenPaths(i) ==
  {extractPath \o e.path : e \in Content(Urls(host)[i], missing, shipMode)}

\* the archives whose tar has returned status 0 in this run
Unpacked == extracted \cup (IF pc = "rm" THEN {idx} ELSE {})

\* the archive extracted last in this run
LastUnpacked == CHOOSE i \in Unpacked : \A j \in Unpacked : j <= i

\* C16 (amended): every archive of a run is extracted into the one staging
\* directory; the paths an archive just extracted has in common with an
\* archive extracted before it are files directly in that directory, their
\* component subtrees are disjoint, and a file two archives write holds
\* what the archive extracted last has shipped.
C16_SharedStagingDir ==
  /\ \A o \in tarObs : o.dest = extractPath
  /\ pc = "rm" =>
       \A i \in extracted \ {idx} :
         \A p \in WrittenPaths(i) \cap WrittenPaths(idx) : Len(p) = Len(extractPath) + 1
  /\ (AllBodies /\ Unpacked # {}) =>
       \E g \in fs.files :
         /\ g.path = extractPath \o <<"version">>
         /\ g.data = <<Urls(host)[LastUnpacked]>>

\* C16 happens: a second archive was extracted over the first and has
\* overwritten the version file of the staging directory
W_C16 ==
  /\ AllBodies
  /\ Cardinality(Unpacked) >= 2
  /\ \E o1, o2 \in tarObs : o1.i # o2.i /\ o1.dest = o2.dest
  /\ \E g \in fs.files :
       g.path = extractPath \o <<"version">> /\ g.data # <<mainUrl(host)>>

\* C17: whichever of the source subtrees of the assembler the archives lack
\* (rustc/bin, rustc/lib, cargo/bin, the host standard library, the
\* standard library of any Android triple), a run in which nothing else
\* goes wrong calls the assembler once and ends with status 0, and the final
\* dist holds every entry the archives ship for it and nothing else, with
\* or without the compiler executable.
C17_MissingSourcesSkipped ==
  Done =>
    /\ exitCode = 0
    /\ err = "none"
    /\ assembled = 1
    /\ Exists(fs, finalDist)
    /\ Snapshot(fs, finalDist) = ExpectedDist
    /\ "rustc/bin" \in missing => ~Exists(fs, finalDist \o <<"bin", BINARY_NAME>>)

\* C17 happens: a Linux run without the compiler executable, the host
\* standard library and one Android standard library has ended with status
\* 0 and has installed cargo and the other Android triples
W_C17 ==
  /\ Succeeded
  /\ host.platform = "linux"
  /\ missing = {"rustlib/etc", "rustc/bin", "rust-std", "i686-linux-android"}
  /\ ~Exists(fs, finalDist \o <<"bin", BINARY_NAME>>)
  /\ Exists(fs, finalDist \o <<"bin", "cargo">>)
  /\ AssembledSupplementary = AndroidTriples \ {"i686-linux-android"}

\* the chunks of the body reach the archive file in the order they were
\* received: the file and the queue of the stream hold them together
ChunksInOrder ==
  (Alive /\ w.st = "open" /\ w.linked) =>
    \E g \in fs.files :
      /\ g.path = tempArchivePath(url)
      /\ g.data \o w.pending = [j \in 1..got |-> ToString(j)]

\* a body of two or more chunks is never held in the queue of the stream as
\* a whole
PendingBounded == got >= 2 => Len(w.pending) < got

\* C18 (as claimed): the chunks reach the archive file in the order they
\* were received, and the chunks received and not yet written are fewer
\* than the chunks of the body.
C18_InOrderAndBounded == ChunksInOrder /\ PendingBounded

\* the final dist of a filesystem: its files with their run marks and its
\* directories
DistOf(f) == [files |-> UnderDist(f), dirs |-> {d \in f.dirs : IsPrefix(finalDist, d)}]

\* the errors of the fetch and extract steps
FetchOrExtractErrors == {"http", "network", "stream", "write", "uncaught", "tar"}

\* C19: as long as the assembler was not called in a run, the final dist is
\* what it was when the run started, so it is after a run that has failed
\* in a fetch or extract step; the assembler is called only after every
\* archive of the run was fetched and extracted.
C19_DistUntouchedBeforeAssembly ==
  /\ assembled = 0 => DistOf(fs) = DistOf(fs0)
  /\ (Done /\ err \in FetchOrExtractErrors) =>
       /\ assembled = 0
       /\ DistOf(fs) = DistOf(fs0)
  /\ assembled >= 1 =>
       /\ fetchBegun = 1..Len(Urls(host))
       /\ extracted = 1..Len(Urls(host))

\* C19 happens: tar has failed in a run that started with an installed
\* dist, and the dist is still there
W_C19 ==
  /\ Done
  /\ err = "tar"
  /\ UnderDist(fs0) # {}
  /\ DistOf(fs) = DistOf(fs0)

\* the files in the download directory
Archives(f) == {g \in f.files : IsPrefix(downloadPath, g.path)}

\* the paths of the files of the download directory that a step removes
Deleted == {g.path : g \in Archives(fs)} \ {g.path : g \in Archives(fs')}

\* C20 (as claimed): a file of the download directory is deleted only after
\* tar has returned status 0 for it, and after a run that ends with status 0
\* no archive file of the run is in the download directory.
C20_DeletedOnlyAfterExtraction ==
  [][ /\ Deleted # {} => (pc = "rm" /\ Deleted = {tempArchivePath(url)})
      /\ (pc' = "exited" /\ exitCode' = 0) =>
           \A g \in Archives(fs') : g.run # runNo ]_vars

\* C20 (amended): once the body of an archive was received in full, its
\* file is deleted only after tar has returned status 0 for it, and it is
\* still there when the run ends because tar has failed; the only other
\* deletion is that of the file at the destination path of a fetch that has
\* failed; after a run that ends with status 0 no file is at the
\* destination path of any archive of the run.
C20_CompleteArchiveKept ==
  [][ /\ Deleted # {} => Deleted = {tempArchivePath(url)}
      /\ (w.ended /\ Deleted # {}) =>
           /\ pc = "rm"
           /\ \E o \in tarObs : o.i = idx
      /\ (~w.ended /\ Deleted # {}) =>
           /\ pc \in {"fetch", "catch"}
           /\ pc' \in {"rethrow", "exited"}
           /\ pc' = "exited" => exitCode' = 1
      /\ (pc' = "exited" /\ err' = "tar") => Exists(fs', tempArchivePath(url))
      /\ (pc' = "exited" /\ exitCode' = 0) =>
           \A i \in 1..Len(Urls(host)) : ~Exists(fs', tempArchivePath(Urls(host)[i])) ]_vars

\* C20 happens: a run has ended with status 0 on a directory that held an
\* archive file of an earlier run, and the download directory is empty
W_C20 ==
  /\ Succeeded
  /\ Exists(fs0, tempArchivePath(mainUrl(host)))
  /\ extracted = 1..Len(Urls(host))
  /\ Archives(fs) = {}

====
